---------------------------- MODULE Spec2Model ----------------------------
(***************************************************************************)
(* A model of src/main.py: a FastAPI service with two handlers sharing one *)
(* MongoDB collection, db.simple_rest_table.                               *)
(*                                                                         *)
(*   POST /incoming    validates the id, computes the duplicate positions  *)
(*                     and the whitespace-stripped text, inserts the       *)
(*                     result and returns it;                              *)
(*   GET  /outgoing    (alias GET /) reads the whole collection, then      *)
(*                     removes everything in it, and returns what it read. *)
(*                                                                         *)
(* A string is a sequence of code points.  A JSON object or a Python dict  *)
(* with fixed keys is a record; the duplicates dict is a function from     *)
(* code points to sequences of positions.                                  *)
(*                                                                         *)
(* The collection lives in the database server, outside the process, so    *)
(* the unit of atomicity is one storage call (find, remove, insert_one):   *)
(* requests served by different workers of the application interleave     *)
(* between those calls.  SeqSpec is the same system with one request in    *)
(* flight at a time.  The storage is taken to be reachable, the            *)
(* interpreter to run with assertions enabled (its default), and           *)
(* Collection.remove() to be the pymongo 3 call that deletes every         *)
(* document.                                                               *)
(***************************************************************************)
EXTENDS Integers, Sequences, FiniteSets, TLC

VARIABLES
    coll,      \* db.simple_rest_table: the stored documents, in insertion order
    nextId,    \* the next _id the storage assigns (an ObjectId, here a counter)
    post,      \* post[p]: the p-th POST /incoming request
    get,       \* get[g]: the g-th GET /outgoing request
    prev,      \* history: the kind of the request that completed last
    fin,       \* FnSpec: the input string
    fdone,     \* FnSpec: the transforms already applied to fin
    fdup,      \* FnSpec: the duplicates dict computed from fin
    fws        \* FnSpec: the whitespace-stripped fin

vars == <<coll, nextId, post, get, prev, fin, fdone, fdup, fws>>
serverVars == <<coll, nextId, post, get, prev>>
fnVars == <<fin, fdone, fdup, fws>>

(***************************************************************************)
(* Bounds.                                                                 *)
(***************************************************************************)
MaxPosts == 2       \* POST requests in a behaviour
MaxGets == 2        \* GET requests in a behaviour
MaxLen == 3         \* longest input string of FnSpec

PostReqs == 1..MaxPosts
GetReqs == 1..MaxGets

Null == [null |-> TRUE]

(***************************************************************************)
(* Characters.                                                             *)
(***************************************************************************)
\* string.whitespace == ' \t\n\r\x0b\x0c'
whitespace == {32, 9, 10, 13, 11, 12}

\* str.isdecimal() is true of the characters of Unicode category Nd:
\* '0'..'9', and (of the others) ARABIC-INDIC DIGIT ZERO..NINE.
DecimalChars == (48..57) \cup (1632..1641)

\* The characters of the FnSpec inputs: the six of string.whitespace,
\* 'a', 'A' and NO-BREAK SPACE (which str.isspace() accepts and
\* string.whitespace does not hold).
Alphabet == whitespace \cup {97, 65, 160}

RECURSIVE StringsUpTo(_)
StringsUpTo(n) ==
    IF n = 0 THEN {<<>>}
    ELSE LET shorter == StringsUpTo(n - 1)
         IN  shorter \cup {Append(s, c) : s \in {t \in shorter : Len(t) = n - 1},
                                          c \in Alphabet}

(***************************************************************************)
(* incoming, lines 78-79: my_id.isdecimal().  False of the empty string.   *)
(***************************************************************************)
\* Faulty variant: the id is not checked.
IsDecimalUnasserted(s) == TRUE

IsDecimal(s) == Len(s) > 0 /\ \A i \in DOMAIN s : s[i] \in DecimalChars

(***************************************************************************)
(* incoming, lines 83-89: the scan that records, for every character seen  *)
(* before, the index x (zero-based, from enumerate) at which it reappears. *)
(* DupLoop is the loop from (one-based) position i on.                     *)
(***************************************************************************)
\* Faulty variant: the list of positions is replaced, not extended.
SetDefaultOverwrite(duplicates, c, x) == (c :> <<x>>) @@ duplicates

SetDefaultAppend(duplicates, c, x) ==
    IF c \in DOMAIN duplicates
    THEN [duplicates EXCEPT ![c] = Append(@, x)]
    ELSE (c :> <<x>>) @@ duplicates

RECURSIVE DupLoop(_, _, _, _)
DupLoop(s, i, duplicates, used_previously) ==
    IF i > Len(s) THEN duplicates
    ELSE LET c == s[i]
             x == i - 1
         IN  IF c \in used_previously
             THEN DupLoop(s, i + 1, SetDefaultAppend(duplicates, c, x), used_previously)
             ELSE DupLoop(s, i + 1, duplicates, used_previously \cup {c})

FindDuplicates(s) == DupLoop(s, 1, <<>>, {})

(***************************************************************************)
(* incoming, lines 92-94: ''.join(i for i in s if i not in                 *)
(* string.whitespace).                                                     *)
(***************************************************************************)
RECURSIVE JoinNonWhitespace(_)
JoinNonWhitespace(s) ==
    IF s = <<>> THEN <<>>
    ELSE (IF Head(s) \notin whitespace THEN <<Head(s)>> ELSE <<>>)
             \o JoinNonWhitespace(Tail(s))

\* Two faulty variants of the filter, which the properties must tell from it:
\* one keeps the form feed and the vertical tab, the other passes over the
\* character that follows each one it drops.
RECURSIVE JoinNonBlank(_)
JoinNonBlank(s) ==
    IF s = <<>> THEN <<>>
    ELSE (IF Head(s) \notin {32, 9, 10, 13} THEN <<Head(s)>> ELSE <<>>)
             \o JoinNonBlank(Tail(s))

RECURSIVE JoinSkipping(_)
JoinSkipping(s) ==
    IF s = <<>> THEN <<>>
    ELSE IF Head(s) \notin whitespace THEN <<Head(s)>> \o JoinSkipping(Tail(s))
    ELSE IF Tail(s) = <<>> THEN <<>>
    ELSE <<Head(Tail(s))>> \o JoinSkipping(Tail(Tail(s)))

RemoveWhitespace(s) == JoinNonWhitespace(s)

(***************************************************************************)
(* incoming, line 99: [int(i) for i in req.numbersMeetNumbers].            *)
(***************************************************************************)
IntList(numbers) == [i \in DOMAIN numbers |-> numbers[i]]

(***************************************************************************)
(* incoming, lines 101-107: the dict out.                                  *)
(***************************************************************************)
BuildOut(req) ==
    [originalId         |-> req.id,
     duplicatePositions |-> FindDuplicates(req.findDuplicates),
     whiteSpacesRemoved |-> RemoveWhitespace(req.whiteSpacesGalore),
     onlyBoolean        |-> req.validateMeOnlyIActuallyShouldBeABoolean,
     listOfIntegers     |-> IntList(req.numbersMeetNumbers)]

OutFields == {"originalId", "duplicatePositions", "whiteSpacesRemoved",
              "onlyBoolean", "listOfIntegers"}

(***************************************************************************)
(* incoming, line 108: insert_one(out.copy()) stores the copy with the _id *)
(* the storage assigns; out itself is left without one.                    *)
(***************************************************************************)
\* Faulty variant: the document is stored without its listOfIntegers.
InsertedDocBeforeNumbers(out, oid) ==
    ("_id" :> oid) @@ [f \in (DOMAIN out) \ {"listOfIntegers"} |-> out[f]]

InsertedDoc(out, oid) == ("_id" :> oid) @@ out

(***************************************************************************)
(* outgoing, line 53: list(find()) is every document of the collection.    *)
(***************************************************************************)
FindAll(c) == c

(***************************************************************************)
(* outgoing, line 59: remove() with no filter leaves the collection empty. *)
(***************************************************************************)
\* Faulty variant: only the first document is deleted.
RemoveOne(c) == IF c = <<>> THEN c ELSE Tail(c)

RemoveAll(c) == <<>>

(***************************************************************************)
(* outgoing, lines 55-57: del i["_id"].                                    *)
(***************************************************************************)
DelId(doc) == [f \in (DOMAIN doc) \ {"_id"} |-> doc[f]]

DelIds(docs) == [i \in DOMAIN docs |-> DelId(docs[i])]

Ids(docs) == [i \in DOMAIN docs |-> docs[i]["_id"]]

Range(s) == {s[i] : i \in DOMAIN s}

(***************************************************************************)
(* Request bodies.  The class Req (lines 36-41) is what FastAPI validates  *)
(* a body against before it calls incoming: a body that does not fit is    *)
(* answered 422 and the handler is not run.                                *)
(***************************************************************************)
ReqFields == {"id", "findDuplicates", "whiteSpacesGalore",
              "validateMeOnlyIActuallyShouldBeABoolean", "numbersMeetNumbers"}

ReqValidates(body) == DOMAIN body = ReqFields

Bodies ==
    { \* id "652", "aAa", "a b", the numbers of the sample request
      [id |-> <<54, 53, 50>>, findDuplicates |-> <<97, 65, 97>>,
       whiteSpacesGalore |-> <<97, 32, 98>>,
       validateMeOnlyIActuallyShouldBeABoolean |-> FALSE,
       numbersMeetNumbers |-> <<35, 2, 100, 15, 75, 25, 99>>],
      \* id "7", empty strings, no numbers
      [id |-> <<55>>, findDuplicates |-> <<>>, whiteSpacesGalore |-> <<>>,
       validateMeOnlyIActuallyShouldBeABoolean |-> TRUE,
       numbersMeetNumbers |-> <<>>],
      \* id "65a"
      [id |-> <<54, 53, 97>>, findDuplicates |-> <<97, 97>>,
       whiteSpacesGalore |-> <<9, 97>>,
       validateMeOnlyIActuallyShouldBeABoolean |-> TRUE,
       numbersMeetNumbers |-> <<5>>],
      \* id "65.2"
      [id |-> <<54, 53, 46, 50>>, findDuplicates |-> <<97>>,
       whiteSpacesGalore |-> <<97>>,
       validateMeOnlyIActuallyShouldBeABoolean |-> FALSE,
       numbersMeetNumbers |-> <<1, 2>>],
      \* id ""
      [id |-> <<>>, findDuplicates |-> <<97>>, whiteSpacesGalore |-> <<97>>,
       validateMeOnlyIActuallyShouldBeABoolean |-> FALSE,
       numbersMeetNumbers |-> <<3>>],
      \* a body without numbersMeetNumbers
      [id |-> <<54>>, findDuplicates |-> <<97>>, whiteSpacesGalore |-> <<97>>,
       validateMeOnlyIActuallyShouldBeABoolean |-> FALSE] }

(***************************************************************************)
(* The initial state: an empty collection, no request received.            *)
(***************************************************************************)
PostIdle == [pc |-> "idle", req |-> Null, out |-> Null, status |-> 0, resp |-> Null,
             inserted_id |-> 0, writes |-> 0]
GetIdle == [pc |-> "idle", r |-> <<>>, found |-> <<>>, status |-> 0]

ServerInit ==
    /\ coll = <<>>
    /\ nextId = 1
    /\ post = [p \in PostReqs |-> PostIdle]
    /\ get = [g \in GetReqs |-> GetIdle]
    /\ prev = "none"

FnIdle ==
    /\ fdone = {}
    /\ fdup = <<>>
    /\ fws = <<>>

Init ==
    /\ ServerInit
    /\ fin = <<>>
    /\ FnIdle

(***************************************************************************)
(* POST /incoming, lines 63-107: the request is received, its body         *)
(* validated against Req, the id asserted decimal, and out built.  A       *)
(* failed assertion is an AssertionError no handler catches: the response  *)
(* is 500.  Requests are numbered in the order they arrive.                *)
(***************************************************************************)
Incoming(p, body) ==
    /\ post[p].pc = "idle"
    /\ \A q \in PostReqs : q < p => post[q].pc # "idle"
    /\ IF ~ReqValidates(body)
       THEN /\ post' = [post EXCEPT ![p] = [@ EXCEPT !.pc = "done", !.req = body,
                                                      !.status = 422]]
            /\ prev' = "post"
       ELSE IF ~IsDecimal(body.id)
       THEN /\ post' = [post EXCEPT ![p] = [@ EXCEPT !.pc = "done", !.req = body,
                                                      !.status = 500]]
            /\ prev' = "post"
       ELSE /\ post' = [post EXCEPT ![p] = [@ EXCEPT !.pc = "insert", !.req = body,
                                                      !.out = BuildOut(body)]]
            /\ prev' = prev
    /\ UNCHANGED <<coll, nextId, get, fnVars>>

(***************************************************************************)
(* POST /incoming, lines 108-109: insert_one(out.copy()); return out.      *)
(***************************************************************************)
InsertOne(p) ==
    /\ post[p].pc = "insert"
    /\ coll' = Append(coll, InsertedDoc(post[p].out, nextId))
    /\ nextId' = nextId + 1
    /\ post' = [post EXCEPT ![p] = [@ EXCEPT !.pc = "done", !.status = 200,
                                             !.resp = post[p].out,
                                             !.inserted_id = nextId,
                                             !.writes = @ + 1]]
    /\ prev' = "post"
    /\ UNCHANGED <<get, fnVars>>

(***************************************************************************)
(* GET /outgoing, lines 53-57: r = list(find()), and the _id of each       *)
(* element of r deleted.  found keeps the _ids read.                       *)
(***************************************************************************)
Find(g) ==
    /\ get[g].pc = "idle"
    /\ \A h \in GetReqs : h < g => get[h].pc # "idle"
    /\ get' = [get EXCEPT ![g] = [@ EXCEPT !.pc = "remove", !.r = DelIds(FindAll(coll)),
                                           !.found = Ids(FindAll(coll))]]
    /\ UNCHANGED <<coll, nextId, post, prev, fnVars>>

(***************************************************************************)
(* GET /outgoing, lines 59-60: remove() deletes every document of the      *)
(* collection; return r.                                                   *)
(***************************************************************************)
Remove(g) ==
    /\ get[g].pc = "remove"
    /\ coll' = RemoveAll(coll)
    /\ get' = [get EXCEPT ![g] = [@ EXCEPT !.pc = "done", !.status = 200]]
    /\ prev' = "get"
    /\ UNCHANGED <<nextId, post, fnVars>>

Next ==
    \/ \E p \in PostReqs, body \in Bodies : Incoming(p, body)
    \/ \E p \in PostReqs : InsertOne(p)
    \/ \E g \in GetReqs : Find(g)
    \/ \E g \in GetReqs : Remove(g)

Spec == Init /\ [][Next]_vars

(***************************************************************************)
(* The same handlers with no two requests in flight together: a request    *)
(* is received only when every other one is idle or done.                  *)
(***************************************************************************)
Quiescent ==
    /\ \A p \in PostReqs : post[p].pc \in {"idle", "done"}
    /\ \A g \in GetReqs : get[g].pc \in {"idle", "done"}

SeqNext ==
    \/ \E p \in PostReqs, body \in Bodies : Quiescent /\ Incoming(p, body)
    \/ \E p \in PostReqs : InsertOne(p)
    \/ \E g \in GetReqs : Quiescent /\ Find(g)
    \/ \E g \in GetReqs : Remove(g)

SeqSpec == Init /\ [][SeqNext]_vars

(***************************************************************************)
(* The transforms of incoming on their own: any string over Alphabet of    *)
(* at most MaxLen characters, put through lines 83-89 and lines 92-94.     *)
(***************************************************************************)
FnInit ==
    /\ ServerInit
    /\ fin \in StringsUpTo(MaxLen)
    /\ FnIdle

ScanDuplicates ==
    /\ "duplicates" \notin fdone
    /\ fdup' = FindDuplicates(fin)
    /\ fdone' = fdone \cup {"duplicates"}
    /\ UNCHANGED <<fin, fws, serverVars>>

StripWhitespace ==
    /\ "whitespace" \notin fdone
    /\ fws' = RemoveWhitespace(fin)
    /\ fdone' = fdone \cup {"whitespace"}
    /\ UNCHANGED <<fin, fdup, serverVars>>

FnNext == ScanDuplicates \/ StripWhitespace

FnSpec == FnInit /\ [][FnNext]_vars


(***************************************************************************)
(* Properties.                                                             *)
(***************************************************************************)
Successful(p) == post[p].pc = "done" /\ post[p].status = 200
Returned(g) == get[g].pc = "done"
Delivered(g) == Range(get[g].found)
StoredIds == Range(Ids(coll))
InsertedIds == 1..(nextId - 1)
Creator(oid) == CHOOSE p \in PostReqs : post[p].inserted_id = oid

NoAppendedRecordLost ==
    \A oid \in InsertedIds :
        \/ oid \in StoredIds
        \/ \E g \in GetReqs : get[g].pc \in {"remove", "done"} /\ oid \in Delivered(g)

\* C3: a POST whose id holds a non-digit character writes nothing: it ends
\* without an inserted record, and every record stored or drained was
\* inserted by a POST whose id holds no such character.
HasNonDigit(id) == \E i \in DOMAIN id : id[i] \notin DecimalChars

RejectedIdNotPersisted ==
    /\ \A p \in PostReqs :
         post[p].pc # "idle" /\ ReqValidates(post[p].req) /\ HasNonDigit(post[p].req.id)
            => /\ post[p].pc = "done"
               /\ post[p].inserted_id = 0
               /\ post[p].writes = 0
    /\ \A oid \in StoredIds \cup UNION {Delivered(g) : g \in GetReqs} :
         \E p \in PostReqs : /\ post[p].inserted_id = oid
                             /\ ~HasNonDigit(post[p].req.id)
    /\ \A i \in DOMAIN coll : ~HasNonDigit(coll[i].originalId)
    /\ \A g \in GetReqs : \A i \in DOMAIN get[g].r : ~HasNonDigit(get[g].r[i].originalId)

RejectedIdWitness ==
    /\ \E p \in PostReqs : /\ post[p].pc = "done"
                           /\ ReqValidates(post[p].req)
                           /\ HasNonDigit(post[p].req.id)
    /\ \E g \in GetReqs : Returned(g) /\ Len(get[g].r) = 1
    /\ \A p \in PostReqs : post[p].pc = "done"

\* C4: a well-formed request whose id is one or more decimal digits is
\* accepted, and one whose id holds any other character is answered with a
\* client error (400 or 422), not a server error.
ValidationErrorIsClientError ==
    \A p \in PostReqs :
        post[p].pc # "idle" /\ ReqValidates(post[p].req) =>
            /\ post[p].req.id # <<>> /\ ~HasNonDigit(post[p].req.id)
                  => post[p].status \in {0, 200}
            /\ HasNonDigit(post[p].req.id) => post[p].status \in {400, 422}

\* C5: the keys of the duplicates mapping are exactly the characters that
\* occur more than once in the string, and each maps to the ascending list
\* of the zero-based indices of its occurrences after the first.
Occurrences(s, c) == {i - 1 : i \in {j \in DOMAIN s : s[j] = c}}
First(S) == CHOOSE m \in S : \A x \in S : m <= x
IsAscendingListOf(l, S) ==
    /\ Len(l) = Cardinality(S)
    /\ Range(l) = S
    /\ \A i \in 1..(Len(l) - 1) : l[i] < l[i + 1]

DuplicatePositionsExact ==
    "duplicates" \in fdone =>
        /\ DOMAIN fdup = {c \in Range(fin) : Cardinality(Occurrences(fin, c)) > 1}
        /\ \A c \in DOMAIN fdup :
             IsAscendingListOf(fdup[c], Occurrences(fin, c) \ {First(Occurrences(fin, c))})

DuplicatePositionsWitness ==
    /\ "duplicates" \in fdone
    /\ \E c \in DOMAIN fdup : Len(fdup[c]) = 2

\* C6: the stripped string is the subsequence of the characters that are
\* none of space, tab, newline, carriage return, form feed and vertical tab,
\* so its length plus the number of those characters is the input's length.
SpecWhitespace == {32, 9, 10, 13, 12, 11}
NotSpecWhitespace(c) == c \notin SpecWhitespace

StripIsNonWhitespaceSubsequence ==
    "whitespace" \in fdone =>
        /\ fws = SelectSeq(fin, NotSpecWhitespace)
        /\ Len(fws) + Cardinality({i \in DOMAIN fin : fin[i] \in SpecWhitespace})
             = Len(fin)

StripWitness ==
    /\ "whitespace" \in fdone
    /\ Len(fin) = 3
    /\ Len(fws) = 2
    /\ \E i \in DOMAIN fin : fin[i] \in {11, 12}

\* C7: stripping the stripped string gives the stripped string again.
StripIdempotent ==
    "whitespace" \in fdone => RemoveWhitespace(fws) = fws

StripIdempotentWitness ==
    /\ "whitespace" \in fdone
    /\ fws # fin
    /\ fws # <<>>

\* C8: for a non-empty numbersMeetNumbers, what POST /incoming returns for
\* the numbers is the single largest of them.
Largest(numbers) == CHOOSE m \in Range(numbers) : \A x \in Range(numbers) : x <= m

LargestNumberSelected ==
    \A p \in PostReqs :
        Successful(p) /\ post[p].req.numbersMeetNumbers # <<>> =>
            /\ Len(post[p].resp.listOfIntegers) = 1
            /\ post[p].resp.listOfIntegers[1] = Largest(post[p].req.numbersMeetNumbers)

\* C9: a POST writes to the storage at most once, and only with its request
\* validated and its record built; every stored record has the five fields
\* of an OutputRecord and is, but for the _id, the record its POST returned.
StoredRecordCompleteAndReturned ==
    /\ \A p \in PostReqs :
         /\ post[p].writes <= 1
         /\ post[p].writes = 1 =>
              /\ Successful(p)
              /\ ReqValidates(post[p].req) /\ ~HasNonDigit(post[p].req.id)
              /\ DOMAIN post[p].out = OutFields
              /\ post[p].resp = post[p].out
    /\ Len(coll) = Cardinality(StoredIds)
    /\ \A i \in DOMAIN coll :
         /\ DOMAIN coll[i] = OutFields \cup {"_id"}
         /\ \E p \in PostReqs : /\ post[p].writes = 1
                                /\ post[p].inserted_id = coll[i]["_id"]
                                /\ DelId(coll[i]) = post[p].resp

StoredRecordWitness ==
    /\ Len(coll) = 2
    /\ coll[1].originalId # coll[2].originalId
    /\ \A p \in PostReqs : Successful(p)

\* C10: no record is in the responses of two GETs.
DeliveredAtMostOnce ==
    \A g, h \in GetReqs :
        g # h /\ Returned(g) /\ Returned(h) => Delivered(g) \cap Delivered(h) = {}

=============================================================================
